---- MODULE Spec2Model ----
(***************************************************************************)
(* Tabular Q-learning on a discretized observation space                   *)
(* (src/policies/q_table_learning.py).                                     *)
(*                                                                         *)
(* Numbers.  Python floats (float64) are modelled as fixed-point integers: *)
(* the integer v stands for the real v / ONE.  Sums and differences are    *)
(* exact, products and quotients are rounded to the nearest representable  *)
(* value (ties to even), as IEEE arithmetic rounds.  The value table is a  *)
(* numpy float32 array: a store into it rounds to the coarser float32      *)
(* grid, the multiples of F32STEP.                                         *)
(***************************************************************************)
EXTENDS Integers, Sequences, FiniteSets, TLC

\* The fixed-point representation of 1.0.
ONE == 16

\* Spacing of the float32 grid of the value table (dtype=np.float32).
F32STEP == 4

\* ---- bounds of the model ----
\* Largest n_bins of a well-formed wrapper.
MaxBins == 2
\* Largest number of observation dimensions.
MaxDim == 2
\* Rows of the value table in the training model (env.observation_space.n).
NumStates == 2
\* Columns of the value table (env.action_space.n).
NumActions == 2
\* Largest n_episodes of one train/evaluate call.
MaxEpisodes == 2
\* Total number of env.step calls in one run.
MaxSteps == 2
\* Number of train/evaluate calls in one run.
MaxCalls == 2

VARIABLES
    \* DiscretizedObservationWrapper
    wstatus,        \* "none" | "ok" | "error": outcome of the constructor
    n_bins,         \* self.n_bins
    low, high,      \* the bound vectors the constructor resolved
    val_bins,       \* self.val_bins: one edge sequence per dimension
    ob_dim,         \* number of components of an observation (self.ob_shape)
    obs_n,          \* self.observation_space.n after construction
    raw,            \* the last observation handed to observation()
    digits,         \* its per-dimension bin indices
    dstate,         \* the integer observation() returned
    \* QLearnPolicy
    pstatus,        \* "none" | "ok"
    gamma, alpha, alpha_decay, epsilon, epsilon_final,
    n_actions, n_states,
    Q,              \* self.Q: n_states rows of n_actions float32 cells
    \* train / evaluate frame
    pc,             \* position in train/evaluate
    mode,           \* "train" | "evaluate" | "none"
    n_episodes, episode, epsilon_drop,
    state, action, new_state, reward, done,
    \* environment
    env_states,     \* the observations env.reset/env.step may return
    steps,          \* env.step calls so far
    calls,          \* train/evaluate calls so far
    \* history
    explored,       \* whether the last act() took the exploration branch
    upd,            \* the arguments and the old values of the last update
    alpha_initial,  \* alpha as constructed
    epsilon_start,  \* epsilon when the current train call started
    trained         \* training episodes completed since construction

wvars == <<wstatus, n_bins, low, high, val_bins, ob_dim, obs_n, raw, digits, dstate>>
pvars == <<pstatus, gamma, alpha, alpha_decay, epsilon, epsilon_final,
           n_actions, n_states, Q>>
tvars == <<pc, mode, n_episodes, episode, epsilon_drop,
           state, action, new_state, reward, done>>
evars == <<env_states, steps, calls>>
hvars == <<explored, upd, alpha_initial, epsilon_start, trained>>
vars == <<wvars, pvars, tvars, evars, hvars>>

\* ---------------------------------------------------------------------
\* Arithmetic

\* a / b rounded to the nearest integer, ties to even (b > 0).
RoundDiv(a, b) ==
    LET q == a \div b
        r == a % b
    IN  IF 2 * r < b THEN q
        ELSE IF 2 * r > b THEN q + 1
        ELSE IF q % 2 = 0 THEN q ELSE q + 1

\* float64 product of two fixed-point values.
Mul(a, b) == RoundDiv(a * b, ONE)

\* float64 quotient of a fixed-point value by an integer count.
DivInt(a, n) == RoundDiv(a, n)

\* The cast of a float64 value to float32.
Float32(x) == RoundDiv(x, F32STEP) * F32STEP

Range(f) == {f[i] : i \in DOMAIN f}

\* ---------------------------------------------------------------------
\* DiscretizedObservationWrapper

\* np.linspace(l, h, num): num < 0 raises; the last sample is h itself.
linspace(l, h, num) ==
    IF num = 0 THEN <<>>
    ELSE IF num = 1 THEN <<l>>
    ELSE LET step == DivInt(h - l, num - 1)
         IN  [k \in 1..num |-> IF k = num THEN h ELSE l + (k - 1) * step]

\* zip(a, b) stops at the shorter of the two.
ZipLen(a, b) == IF Len(a) <= Len(b) THEN Len(a) ELSE Len(b)

\* WrapperInit with the two outlier bins left out of the size of the space.
WrapperInitNoOutlierBins(nb, lo, hi) ==
    [ok       |-> nb + 1 >= 0,
     val_bins |-> IF nb + 1 >= 0
                  THEN [i \in 1..ZipLen(lo, hi) |-> linspace(lo[i], hi[i], nb + 1)]
                  ELSE <<>>,
     n        |-> IF nb + 1 >= 0 THEN nb ^ Len(lo) ELSE 0]

\* __init__: the fields it sets from (n_bins, low, high); "ok" is FALSE when
\* np.linspace raises on a negative sample count.
WrapperInit(nb, lo, hi) ==
    [ok       |-> nb + 1 >= 0,
     val_bins |-> IF nb + 1 >= 0
                  THEN [i \in 1..ZipLen(lo, hi) |-> linspace(lo[i], hi[i], nb + 1)]
                  ELSE <<>>,
     n        |-> IF nb + 1 >= 0 THEN (nb + 2) ^ Len(lo) ELSE 0]

\* np.digitize([x], bins)[0] for increasing bins: np.searchsorted(bins, x,
\* side='right'), a binary search; lo and hi are 0-based as in numpy.
RECURSIVE searchsorted_right(_, _, _, _)
searchsorted_right(bins, x, lo, hi) ==
    IF lo >= hi THEN lo
    ELSE LET mid == (lo + hi) \div 2
         IN  IF bins[mid + 1] <= x
             THEN searchsorted_right(bins, x, mid + 1, hi)
             ELSE searchsorted_right(bins, x, lo, mid)

\* digitize with right=True: np.searchsorted(bins, x, side='left').
RECURSIVE searchsorted_left(_, _, _, _)
searchsorted_left(bins, x, lo, hi) ==
    IF lo >= hi THEN lo
    ELSE LET mid == (lo + hi) \div 2
         IN  IF bins[mid + 1] < x
             THEN searchsorted_left(bins, x, mid + 1, hi)
             ELSE searchsorted_left(bins, x, lo, mid)

digitize_right_closed(x, bins) == searchsorted_left(bins, x, 0, Len(bins))

digitize(x, bins) == searchsorted_right(bins, x, 0, Len(bins))

\* sum([d * ((n_bins + 2) ** i) for i, d in enumerate(digits)])
RECURSIVE convert_sum(_, _, _)
convert_sum(ds, base, i) ==
    IF i > Len(ds) THEN 0
    ELSE ds[i] * (base ^ (i - 1)) + convert_sum(ds, base, i + 1)

\* convert_to_one_number with the base n_bins + 1.
convert_with_short_base(ds, nb) == convert_sum(ds, nb + 1, 1)

convert_to_one_number(ds, nb) == convert_sum(ds, nb + 2, 1)

\* observation(): the digits of each component, zipped with val_bins.
observation_digits(ob, bins) ==
    [i \in 1..ZipLen(ob, bins) |-> digitize(ob[i], bins[i])]

\* ---------------------------------------------------------------------
\* QLearnPolicy

\* numpy indexing of an axis of length n: i is valid iff -n <= i < n, and a
\* negative index counts from the end.
InBounds(i, n) == -n <= i /\ i < n

WrapIndex(i, n) == IF i < 0 THEN i + n ELSE i

\* __init__: no argument is validated beyond the two isinstance assertions.
PolicyInit(g, a, ad, e, ef, nS, nA) ==
    [gamma |-> g, alpha |-> a, alpha_decay |-> ad, epsilon |-> e,
     epsilon_final |-> ef, n_actions |-> nA, n_states |-> nS,
     Q |-> [s \in 0..nS - 1 |-> [c \in 0..nA - 1 |-> 0]]]

\* np.max(row): a fold over the row from its first cell.
RECURSIVE np_max_from(_, _, _)
np_max_from(row, i, best) ==
    IF i \notin DOMAIN row THEN best
    ELSE np_max_from(row, i + 1, IF row[i] > best THEN row[i] ELSE best)

np_max(row) == np_max_from(row, 1, row[0])

\* actions_with_max_q as np.argmax would choose: the first maximal action.
first_action_with_max_q(row) ==
    {CHOOSE a \in DOMAIN row :
        /\ row[a] = np_max(row)
        /\ \A b \in DOMAIN row : row[b] = np_max(row) => a <= b}

\* np.arange(n_actions)[Q[state, :] == max_q]
actions_with_max_q(row) == {a \in DOMAIN row : row[a] = np_max(row)}

\* act(): the guard of the exploration branch; draw is np.random.rand().
act_explores(training, eps, draw) == training /\ eps > 0 /\ draw < eps

\* act(): the actions it may return. The exploration branch samples the
\* action space, the other branch chooses among actions_with_max_q.
act_choices(Qt, st, explores) ==
    IF explores THEN 0..n_actions - 1
    ELSE actions_with_max_q(Qt[WrapIndex(st, n_states)])

\* act() raises IndexError when it indexes Q[state, :] out of bounds.
act_raises(st, explores) == ~explores /\ ~InBounds(st, n_states)

\* update_target without the terminal case: it bootstraps from new_state
\* even when done.
update_target_always_bootstraps(Qt, al, ga, s, a, ns, r, dn) ==
    Qt[s][a] + Mul(al, r + Mul(ga, np_max(Qt[IF dn THEN s ELSE ns])) - Qt[s][a])

\* The float64 value _update_q_value adds up before it is stored.
update_target(Qt, al, ga, s, a, ns, r, dn) ==
    IF dn THEN Qt[s][a] + Mul(al, r - Qt[s][a])
    ELSE Qt[s][a] + Mul(al, r + Mul(ga, np_max(Qt[ns])) - Qt[s][a])

\* _update_q_value raises IndexError on an index numpy rejects; new_state
\* is indexed only when done is false.
update_raises(st, ac, ns, dn) ==
    \/ ~InBounds(st, n_states)
    \/ ~InBounds(ac, n_actions)
    \/ ~dn /\ ~InBounds(ns, n_states)

\* update_q_value assigning the whole row Q[state, :].
update_q_value_whole_row(Qt, al, ga, st, ac, ns, r, dn) ==
    LET s == WrapIndex(st, n_states)
        a == WrapIndex(ac, n_actions)
        n == IF dn THEN s ELSE WrapIndex(ns, n_states)
    IN  [Qt EXCEPT ![s] = [c \in DOMAIN Qt[s] |->
                            Float32(update_target(Qt, al, ga, s, a, n, r, dn))]]

\* _update_q_value: the table after the call.
update_q_value(Qt, al, ga, st, ac, ns, r, dn) ==
    LET s == WrapIndex(st, n_states)
        a == WrapIndex(ac, n_actions)
        n == IF dn THEN s ELSE WrapIndex(ns, n_states)
    IN  [Qt EXCEPT ![s][a] = Float32(update_target(Qt, al, ga, s, a, n, r, dn))]

\* decay_alpha that forgets to decay.
decay_alpha_never(al, ad) == al

\* self.alpha *= self.alpha_decay
decay_alpha(al, ad) == Mul(al, ad)

\* if self.epsilon > self.epsilon_final: self.epsilon -= epsilon_drop
decay_epsilon(eps, ef, drop) == IF eps > ef THEN eps - drop ELSE eps

\* epsilon_drop = (self.epsilon - self.epsilon_final) / n_episodes
epsilon_drop_of(eps, ef, n) == DivInt(eps - ef, n)

\* ---------------------------------------------------------------------
\* Inputs

\* Lower and upper bounds of an observation dimension (about -2.4 and
\* -0.42, 2.4 and 0.42, the bounds of the entry point).
Lows == {-38, -7}
Highs == {38, 7}

\* Hyperparameter values a well-formed policy is built with.
Gammas == {ONE - 1}
Alphas == {ONE \div 2}
AlphaDecays == {ONE - 2}
Epsilons == {0, ONE \div 2, ONE}
EpsilonFinals == {0, 1}

\* The (epsilon, epsilon_final) pairs tried: no exploration at all, and a
\* floor of about 0.05 under an initial rate of 0.5 or 1.0.
EpsilonPairs ==
    {<<e, ef>> \in Epsilons \X EpsilonFinals : (e = 0) = (ef = 0)}

\* Values the constructors are called with when nothing restricts them.
AnyRates == {-1, 0, ONE \div 2, ONE, 2 * ONE}

\* np.random.rand() lies in [0, 1).
Draws == {0, ONE \div 2, ONE - 1}

\* Rewards of the environment.
Rewards == {0, ONE}

\* The observations of an environment that honours Discrete(n_states).
ValidStates == 0..NumStates - 1
\* The observations of an environment that may break that contract.
AnyStates == -1..NumStates

NoUpdate ==
    [valid |-> FALSE, s |-> 0, a |-> 0, ns |-> 0, r |-> 0, done |-> FALSE,
     old |-> 0, next_row |-> <<>>, al |-> 0]

\* The observations tried on dimension i: far outliers and the neighbourhood
\* of every edge.
RawCandidates(i) ==
    {low[i] - 100 * ONE, high[i] + 100 * ONE}
    \cup UNION {{e - 1, e, e + 1} : e \in Range(val_bins[i])}

RECURSIVE RawVectors(_)
RawVectors(k) ==
    IF k = 0 THEN {<<>>}
    ELSE {Append(v, x) : v \in RawVectors(k - 1), x \in RawCandidates(k)}

\* ---------------------------------------------------------------------
\* Initial states

NoWrapper ==
    /\ wstatus = "none" /\ n_bins = 0 /\ low = <<>> /\ high = <<>>
    /\ val_bins = <<>> /\ ob_dim = 0 /\ obs_n = 0
    /\ raw = <<>> /\ digits = <<>> /\ dstate = 0

NoPolicy ==
    /\ pstatus = "none" /\ gamma = 0 /\ alpha = 0 /\ alpha_decay = 0
    /\ epsilon = 0 /\ epsilon_final = 0 /\ n_actions = 0 /\ n_states = 0
    /\ Q = <<>>

NoCall ==
    /\ pc = "idle" /\ mode = "none" /\ n_episodes = 0 /\ episode = 0
    /\ epsilon_drop = 0 /\ state = 0 /\ action = 0 /\ new_state = 0
    /\ reward = 0 /\ done = FALSE
    /\ steps = 0 /\ calls = 0
    /\ explored = FALSE /\ upd = NoUpdate /\ epsilon_start = 0 /\ trained = 0

\* A policy built by QLearnPolicy.__init__ from p = PolicyInit(...).
PolicyBuilt(p) ==
    /\ pstatus = "ok"
    /\ gamma = p.gamma /\ alpha = p.alpha /\ alpha_decay = p.alpha_decay
    /\ epsilon = p.epsilon /\ epsilon_final = p.epsilon_final
    /\ n_actions = p.n_actions /\ n_states = p.n_states /\ Q = p.Q
    /\ alpha_initial = p.alpha

\* A well-formed policy over an environment with NumStates observations.
InitPolicy ==
    \E g \in Gammas, a \in Alphas, ad \in AlphaDecays, ee \in EpsilonPairs :
        /\ ee[2] <= ee[1]
        /\ PolicyBuilt(PolicyInit(g, a, ad, ee[1], ee[2], NumStates, NumActions))

Init ==
    /\ NoWrapper /\ InitPolicy /\ NoCall
    /\ env_states = ValidStates

InitFault ==
    /\ NoWrapper /\ InitPolicy /\ NoCall
    /\ env_states = AnyStates

\* A well-formed wrapper: n_bins > 0, low < high, one bound pair per dimension.
InitDisc ==
    /\ NoPolicy /\ NoCall /\ alpha_initial = 0 /\ env_states = {}
    /\ \E nb \in 1..MaxBins, d \in 1..MaxDim :
       \E lo \in [1..d -> Lows], hi \in [1..d -> Highs] :
        /\ \A i \in 1..d : lo[i] < hi[i]
        /\ wstatus = "ok" /\ n_bins = nb /\ low = lo /\ high = hi /\ ob_dim = d
        /\ val_bins = WrapperInit(nb, lo, hi).val_bins
        /\ obs_n = WrapperInit(nb, lo, hi).n
        /\ raw = <<>> /\ digits = <<>> /\ dstate = 0

InitCtor ==
    /\ NoWrapper /\ NoPolicy /\ NoCall /\ alpha_initial = 0 /\ env_states = {}

\* ---------------------------------------------------------------------
\* Actions of the wrapper

\* DiscretizedObservationWrapper(env, n_bins, low, high) on an environment
\* with d observation components.
NewWrapper ==
    /\ wstatus = "none"
    /\ \E nb \in -2..MaxBins, d \in 1..MaxDim, ll \in 1..MaxDim, lh \in 1..MaxDim :
       \E lo \in [1..ll -> {-7}], hi \in [1..lh -> {7}] :
        LET w == WrapperInit(nb, lo, hi)
        IN  /\ ob_dim' = d /\ low' = lo /\ high' = hi
            /\ IF w.ok
               THEN /\ wstatus' = "ok" /\ n_bins' = nb
                    /\ val_bins' = w.val_bins /\ obs_n' = w.n
               ELSE /\ wstatus' = "error"
                    /\ UNCHANGED <<n_bins, val_bins, obs_n>>
    /\ UNCHANGED <<raw, digits, dstate, pvars, tvars, evars, hvars>>

\* observation(raw) on one observation of ob_dim components.
Observe ==
    /\ wstatus = "ok" /\ raw = <<>>
    /\ \E ob \in RawVectors(ob_dim) :
        /\ raw' = ob
        /\ digits' = observation_digits(ob, val_bins)
        /\ dstate' = convert_to_one_number(observation_digits(ob, val_bins), n_bins)
    /\ UNCHANGED <<wstatus, n_bins, low, high, val_bins, ob_dim, obs_n,
                   pvars, tvars, evars, hvars>>

\* ---------------------------------------------------------------------
\* Actions of the policy

\* QLearnPolicy(env, gamma, alpha, alpha_decay, epsilon, epsilon_final) over
\* the wrapped environment.
NewPolicy ==
    /\ pstatus = "none" /\ wstatus = "ok"
    /\ \E g \in AnyRates, e \in AnyRates, ef \in {0, 1} :
        LET p == PolicyInit(g, ONE \div 2, ONE, e, ef, obs_n, NumActions)
        IN  /\ pstatus' = "ok"
            /\ gamma' = p.gamma /\ alpha' = p.alpha /\ alpha_decay' = p.alpha_decay
            /\ epsilon' = p.epsilon /\ epsilon_final' = p.epsilon_final
            /\ n_actions' = p.n_actions /\ n_states' = p.n_states /\ Q' = p.Q
            /\ alpha_initial' = p.alpha
    /\ UNCHANGED <<wvars, tvars, evars, explored, upd, epsilon_start, trained>>

\* train(n): the statements before the episode loop.
Train ==
    /\ pstatus = "ok" /\ pc = "idle" /\ calls < MaxCalls
    /\ \E n \in 1..MaxEpisodes :
        /\ n_episodes' = n
        /\ epsilon_drop' = epsilon_drop_of(epsilon, epsilon_final, n)
    /\ mode' = "train" /\ episode' = 0 /\ pc' = "reset"
    /\ calls' = calls + 1 /\ epsilon_start' = epsilon
    /\ UNCHANGED <<wvars, pvars, state, action, new_state, reward, done,
                   env_states, steps, explored, upd, alpha_initial, trained>>

\* evaluate(n): the statements before the episode loop.
Evaluate ==
    /\ pstatus = "ok" /\ pc = "idle" /\ calls < MaxCalls
    /\ \E n \in 1..MaxEpisodes : n_episodes' = n
    /\ mode' = "evaluate" /\ episode' = 0 /\ pc' = "reset"
    /\ calls' = calls + 1
    /\ UNCHANGED <<wvars, pvars, epsilon_drop, state, action, new_state, reward,
                   done, env_states, steps, hvars>>

\* state = self.env.reset()
Reset ==
    /\ pc = "reset"
    /\ \E s \in env_states : state' = s
    /\ pc' = "act"
    /\ UNCHANGED <<wvars, pvars, mode, n_episodes, episode, epsilon_drop,
                   action, new_state, reward, done, evars, hvars>>

\* action = self.act(state, training)
Act ==
    /\ pc = "act"
    /\ \E draw \in Draws :
        LET ex == act_explores(mode = "train", epsilon, draw)
        IN  /\ ~act_raises(state, ex)
            /\ \E a \in act_choices(Q, state, ex) : action' = a
            /\ explored' = ex
    /\ pc' = "step" /\ upd' = NoUpdate
    /\ UNCHANGED <<wvars, pvars, mode, n_episodes, episode, epsilon_drop,
                   state, new_state, reward, done, evars,
                   alpha_initial, epsilon_start, trained>>

\* train: new_state, reward, done, _ = self.env.step(action)
TrainStep ==
    /\ pc = "step" /\ mode = "train" /\ steps < MaxSteps
    /\ \E ns \in env_states, r \in Rewards, d \in BOOLEAN :
        new_state' = ns /\ reward' = r /\ done' = d
    /\ steps' = steps + 1 /\ pc' = "update" /\ explored' = FALSE
    /\ UNCHANGED <<wvars, pvars, mode, n_episodes, episode, epsilon_drop,
                   state, action, env_states, calls,
                   upd, alpha_initial, epsilon_start, trained>>

\* train: the update of the table, then step += 1, state = new_state and
\* the test of done.
Update ==
    /\ pc = "update"
    /\ ~update_raises(state, action, new_state, done)
    /\ Q' = update_q_value(Q, alpha, gamma, state, action, new_state, reward, done)
    /\ upd' = [valid |-> TRUE, s |-> state, a |-> action, ns |-> new_state,
               r |-> reward, done |-> done,
               old |-> Q[WrapIndex(state, n_states)][WrapIndex(action, n_actions)],
               next_row |-> IF InBounds(new_state, n_states)
                            THEN Q[WrapIndex(new_state, n_states)] ELSE <<>>,
               al |-> alpha]
    /\ state' = new_state
    /\ pc' = IF done THEN "end" ELSE "act"
    /\ UNCHANGED <<wvars, pstatus, gamma, alpha, alpha_decay, epsilon,
                   epsilon_final, n_actions, n_states,
                   mode, n_episodes, episode, epsilon_drop, action, new_state,
                   reward, done, evars, explored, alpha_initial, epsilon_start,
                   trained>>

\* train: the end of an episode: the two decays, then the next episode or
\* the return.
EndEpisode ==
    /\ pc = "end" /\ mode = "train"
    /\ alpha' = decay_alpha(alpha, alpha_decay)
    /\ epsilon' = decay_epsilon(epsilon, epsilon_final, epsilon_drop)
    /\ episode' = episode + 1 /\ trained' = trained + 1
    /\ pc' = IF episode + 1 < n_episodes THEN "reset" ELSE "idle"
    /\ mode' = IF episode + 1 < n_episodes THEN mode ELSE "none"
    /\ upd' = NoUpdate
    /\ UNCHANGED <<wvars, pstatus, gamma, alpha_decay, epsilon_final, n_actions,
                   n_states, Q, n_episodes, epsilon_drop, state, action,
                   new_state, reward, done, evars, explored, alpha_initial,
                   epsilon_start>>

\* evaluate: env.step, state = new_state and the test of done.
EvalStep ==
    /\ pc = "step" /\ mode = "evaluate" /\ steps < MaxSteps
    /\ \E ns \in env_states, r \in Rewards, d \in BOOLEAN :
        /\ new_state' = ns /\ reward' = r /\ done' = d
        /\ state' = ns
        /\ pc' = IF d THEN "end" ELSE "act"
    /\ steps' = steps + 1 /\ explored' = FALSE
    /\ UNCHANGED <<wvars, pvars, mode, n_episodes, episode, epsilon_drop,
                   action, env_states, calls,
                   upd, alpha_initial, epsilon_start, trained>>

\* evaluate: the end of an episode.
EndEvalEpisode ==
    /\ pc = "end" /\ mode = "evaluate"
    /\ episode' = episode + 1
    /\ pc' = IF episode + 1 < n_episodes THEN "reset" ELSE "idle"
    /\ mode' = IF episode + 1 < n_episodes THEN mode ELSE "none"
    /\ UNCHANGED <<wvars, pvars, n_episodes, epsilon_drop, state, action,
                   new_state, reward, done, evars, hvars>>

\* act() raises IndexError: nothing catches it, train/evaluate is aborted.
ActRaises ==
    /\ pc = "act"
    /\ \E draw \in Draws :
        act_raises(state, act_explores(mode = "train", epsilon, draw))
    /\ pc' = "failed"
    /\ UNCHANGED <<wvars, pvars, mode, n_episodes, episode, epsilon_drop,
                   state, action, new_state, reward, done, evars, hvars>>

\* train: _update_q_value raises; the handler prints the transition and
\* raises Exception, which aborts train.
UpdateRaises ==
    /\ pc = "update"
    /\ update_raises(state, action, new_state, done)
    /\ pc' = "failed"
    /\ UNCHANGED <<wvars, pvars, mode, n_episodes, episode, epsilon_drop,
                   state, action, new_state, reward, done, evars, hvars>>

\* ---------------------------------------------------------------------
\* Specifications

Next ==
    \/ Train \/ Evaluate \/ Reset \/ Act \/ TrainStep \/ Update
    \/ EndEpisode \/ EvalStep \/ EndEvalEpisode

\* Training and evaluation over an environment that honours its spaces.
Spec == Init /\ [][Next]_vars

NextFault == Next \/ ActRaises \/ UpdateRaises

\* Training and evaluation over an environment that may return any integer.
SpecFault == InitFault /\ [][NextFault]_vars

NextDisc == Observe

\* One well-formed wrapper and the observations handed to it.
SpecDisc == InitDisc /\ [][NextDisc]_vars

NextCtor == NewWrapper \/ NewPolicy

\* The two constructors called with unrestricted arguments.
SpecCtor == InitCtor /\ [][NextCtor]_vars

\* ---------------------------------------------------------------------
\* Properties of the wrapper (checked under SpecDisc and SpecCtor)

\* The digits of m in base b, least significant first, by repeated
\* modulo and division.
decode_state(m, b, k) == [i \in 1..k |-> (m \div (b ^ (i - 1))) % b]

Observed == wstatus = "ok" /\ raw # <<>>

\* C3: for a wrapper built with n_bins > 0 over d dimensions, observation()
\* converts every one of the d components, whatever its value, and returns
\* an integer in [0, (n_bins+2)^d - 1], a valid row of the table of
\* observation_space.n rows.
ObservationInRange ==
    (Observed /\ n_bins > 0) =>
        /\ Len(digits) = ob_dim
        /\ dstate \in 0..((n_bins + 2) ^ ob_dim - 1)
        /\ obs_n = (n_bins + 2) ^ ob_dim
        /\ dstate \in 0..(obs_n - 1)

\* C3 witness: an observation with every component far above its upper
\* bound, which lands in the last row of the table.
ObservedExtremes ==
    /\ Observed
    /\ \A i \in 1..ob_dim : raw[i] = high[i] + 100 * ONE
    /\ dstate = obs_n - 1

\* C4: the bin index of every component is the 0-based index of the first
\* edge strictly greater than the value: 0 below the first edge, n_bins+1
\* from the last edge on, k when edges[k-1] <= value < edges[k]; low-100
\* gives 0, high+100 gives n_bins+1 and [low, high) gives 1..n_bins.
FirstEdgeGreaterRule ==
    Observed =>
        \A i \in 1..ob_dim :
            LET x == raw[i]
                e == val_bins[i]
                k == digits[i]
            IN  /\ Len(e) = n_bins + 1
                /\ \A j \in 1..n_bins : e[j] < e[j + 1]
                /\ k \in 0..(n_bins + 1)
                /\ \A j \in 1..k : e[j] <= x
                /\ k <= n_bins => x < e[k + 1]
                /\ x < e[1] => k = 0
                /\ x > e[n_bins + 1] => k = n_bins + 1
                /\ \A j \in 1..n_bins : (e[j] <= x /\ x < e[j + 1]) => k = j
                /\ x = low[i] - 100 * ONE => k = 0
                /\ x = high[i] + 100 * ONE => k = n_bins + 1
                /\ (low[i] <= x /\ x < high[i]) => k \in 1..n_bins

\* C4 witness: a component lying exactly on an inner edge, counted in the
\* bin that starts at that edge.
ObservedOnInnerEdge ==
    /\ Observed
    /\ \E i \in 1..ob_dim :
        /\ digits[i] \in 2..n_bins
        /\ raw[i] = val_bins[i][digits[i]]

\* C5: the encoding is a bijection between the digit tuples over
\* 0..n_bins+1 and 0..(n_bins+2)^k - 1: decoding the state of any
\* observation by modulo and division gives back its digits in order, and
\* every integer of the range is the encoding of its own decoding.
MixedRadixBijection ==
    /\ Observed =>
        /\ \A i \in 1..Len(digits) : digits[i] \in 0..(n_bins + 1)
        /\ decode_state(dstate, n_bins + 2, Len(digits)) = digits
    /\ (wstatus = "ok" /\ raw = <<>>) =>
        \A m \in 0..((n_bins + 2) ^ ob_dim - 1) :
            LET ds == decode_state(m, n_bins + 2, ob_dim)
            IN  /\ \A i \in 1..ob_dim : ds[i] \in 0..(n_bins + 1)
                /\ convert_to_one_number(ds, n_bins) = m

\* C5 witness: two dimensions whose digits differ, the first one being the
\* least significant.
ObservedMixedDigits ==
    /\ Observed /\ ob_dim >= 2
    /\ digits[1] = n_bins + 1 /\ digits[2] = 1
    /\ dstate = (n_bins + 1) + (n_bins + 2)

\* C8 (as claimed): a constructor that returned an object was given valid
\* arguments: gamma and epsilon in [0, 1], n_bins > 0, and bound vectors of
\* the length of the observation.
ConstructionRejectsInvalid ==
    /\ pstatus = "ok" =>
        /\ 0 <= gamma /\ gamma <= ONE
        /\ 0 <= epsilon /\ epsilon <= ONE
    /\ wstatus = "ok" =>
        /\ n_bins > 0
        /\ Len(low) = Len(high)
        /\ Len(low) = ob_dim

\* ---------------------------------------------------------------------
\* Properties of the policy (checked under Spec and SpecFault)

\* The largest value of a row, and the actions that reach it.
MaxOf(row) == CHOOSE v \in Range(row) : \A w \in Range(row) : v >= w

Best(row) == {a \in DOMAIN row : \A b \in DOMAIN row : row[a] >= row[b]}

Abs(x) == IF x < 0 THEN -x ELSE x

\* The value the update rule prescribes for the last update, in float64.
PrescribedValue ==
    IF upd.done
    THEN upd.old + Mul(upd.al, upd.r - upd.old)
    ELSE upd.old + Mul(upd.al, upd.r + Mul(gamma, MaxOf(upd.next_row)) - upd.old)

\* The last update started from a zero cell and bootstraps from nothing.
FromZero ==
    /\ upd.old = 0
    /\ upd.done \/ \A c \in DOMAIN upd.next_row : upd.next_row[c] = 0

\* C1 (as claimed): after an update the cell holds exactly
\* Q + alpha*(reward - Q) when done, exactly
\* Q + alpha*(reward + gamma*max Q[new_state,:] - Q) otherwise, and exactly
\* alpha*reward when it started from zero with nothing to bootstrap from.
UpdateStoresExactValue ==
    upd.valid =>
        /\ Q[upd.s][upd.a] = PrescribedValue
        /\ FromZero => Q[upd.s][upd.a] = Mul(upd.al, upd.r)

\* C1 (amended): after an update the cell holds the float32 value nearest
\* to the prescribed float64 value: it equals it exactly when that value is
\* a float32, and from zero the prescribed value is alpha*reward.
UpdateStoresRoundedValue ==
    upd.valid =>
        /\ Q[upd.s][upd.a] % F32STEP = 0
        /\ 2 * Abs(Q[upd.s][upd.a] - PrescribedValue) <= F32STEP
        /\ PrescribedValue % F32STEP = 0 => Q[upd.s][upd.a] = PrescribedValue
        /\ FromZero => PrescribedValue = Mul(upd.al, upd.r)

\* C1 witness: a non-terminal update with new_state == state that
\* bootstraps from a non-zero row and whose result is rounded by the store.
UpdatedWithRounding ==
    /\ upd.valid /\ ~upd.done /\ upd.ns = upd.s
    /\ MaxOf(upd.next_row) # 0
    /\ Q[upd.s][upd.a] # PrescribedValue

\* C2: an act() that does not explore returns an action of maximal value in
\* the row of its state, and the actions it may return are all of them.
GreedyActIsAnyArgmax ==
    (pc = "step" /\ ~explored) =>
        /\ action \in Best(Q[state])
        /\ act_choices(Q, state, FALSE) = Best(Q[state])

\* C2 witness: a training act() that did not explore, met a tie and
\* returned another action than the one of lowest index.
GreedyTieNotLowest ==
    /\ pc = "step" /\ ~explored /\ mode = "train" /\ epsilon > 0
    /\ Cardinality(Best(Q[state])) > 1
    /\ action # 0

\* C6 (as claimed): epsilon never is below epsilon_final, and after N
\* episodes of train(n) it is max(epsilon_final, start - N*(start-final)/n)
\* up to the rounding of the N subtractions.
EpsilonClampedAtFloor ==
    /\ pstatus = "ok" => epsilon >= epsilon_final
    /\ mode = "train" =>
        LET exact_n == epsilon_start * n_episodes
                       - episode * (epsilon_start - epsilon_final)
            floor_n == epsilon_final * n_episodes
            closed_n == IF exact_n > floor_n THEN exact_n ELSE floor_n
        IN  Abs(epsilon * n_episodes - closed_n) <= episode * n_episodes

\* One step of train/evaluate leaves every cell but Q[state, action] alone.
OthersUnchanged ==
    /\ DOMAIN Q' = DOMAIN Q
    /\ \A s \in DOMAIN Q :
        /\ DOMAIN Q'[s] = DOMAIN Q[s]
        /\ \A a \in DOMAIN Q[s] :
            (s # state \/ a # action) => Q'[s][a] = Q[s][a]

FrameStep ==
    /\ Q' # Q => (pc = "update" /\ OthersUnchanged)
    /\ (pc = "act" \/ mode = "evaluate" \/ mode' = "evaluate") =>
        (Q' = Q /\ alpha' = alpha /\ epsilon' = epsilon)

\* C7: the table changes only in the update step of train, which changes at
\* most the cell Q[state, action] and never the shape; act (training or
\* not) and every step of evaluate leave the table, alpha and epsilon as
\* they are.
UpdateIsSoleMutator == [][FrameStep]_vars

\* C7 witness: an evaluation episode that ended over a table training had
\* changed before.
EvaluatedAfterTraining ==
    /\ mode = "evaluate" /\ pc = "end" /\ trained > 0
    /\ \E s \in DOMAIN Q : \E a \in DOMAIN Q[s] : Q[s][a] # 0

\* C9 (as claimed): an update whose state, action or next state is outside
\* [0, n-1] fails, aborts train and leaves the table as it was.
OutOfRangeStep ==
    (/\ pc = "update"
     /\ \/ state \notin 0..(n_states - 1)
        \/ action \notin 0..(n_actions - 1)
        \/ new_state \notin 0..(n_states - 1))
    => (pc' = "failed" /\ Q' = Q)

OutOfRangeUpdateIsFatal == [][OutOfRangeStep]_vars

\* alpha after k episodes: the per-episode product applied k times.
RECURSIVE AlphaAfter(_)
AlphaAfter(k) == IF k = 0 THEN alpha_initial ELSE Mul(AlphaAfter(k - 1), alpha_decay)

DecayStep ==
    /\ (alpha' # alpha \/ epsilon' # epsilon \/ trained' # trained) =>
        (pc = "end" /\ mode = "train")
    /\ (pc = "end" /\ mode = "train") =>
        /\ alpha' = Mul(alpha, alpha_decay)
        /\ epsilon' \in {epsilon, epsilon - epsilon_drop}
        /\ trained' = trained + 1 /\ episode' = episode + 1
    /\ alpha' <= alpha
    /\ epsilon' <= epsilon

\* C10: alpha and epsilon change only at the end of a training episode,
\* once per episode: alpha is multiplied by alpha_decay (after k episodes
\* it is alpha_initial times alpha_decay, k times), epsilon is decreased at
\* most once; neither ever increases, and an update of episode k uses the
\* alpha that k decays have produced.
DecayOncePerEpisode ==
    /\ [](pstatus = "ok" => alpha = AlphaAfter(trained))
    /\ [](upd.valid => upd.al = AlphaAfter(trained))
    /\ [][DecayStep]_vars

\* C10 witness: an update of the second training episode, made with the
\* alpha one decay has produced, after epsilon has come down to its floor.
UpdatedInSecondEpisode ==
    /\ upd.valid /\ trained = 1
    /\ upd.al < alpha_initial /\ upd.al = alpha
    /\ epsilon_final > 0 /\ epsilon = epsilon_final

====
